---- MODULE Spec2Model ----
(***************************************************************************)
(* A model of the Snappy block encoder and framed-stream Writer of         *)
(* src/encode.go.                                                          *)
(*                                                                         *)
(* A Go []byte is a sequence over 0..255.  Go indexes from 0 and TLA+ from *)
(* 1: src[i] of the source is src[i+1] here, and the slice src[a:b] is     *)
(* SubSeq(src, a+1, b).  All cursors (s, nextEmit, candidate, ...) keep    *)
(* their Go values.                                                        *)
(*                                                                         *)
(* A uint32 is kept as the tuple of its four bytes, least significant      *)
(* first, and a uint64 as its eight bytes: the evaluator's integers are    *)
(* 32-bit signed, so a uint32 does not fit one of them.  Only hash needs   *)
(* the numeric value, and computes the product modulo 2^32 limb by limb.   *)
(***************************************************************************)
EXTENDS Integers, Sequences, FiniteSets, TLC

----------------------------------------------------------------------------
(* Constants of the package.                                               *)

\* snappy.go: the chunk tags of the block format (spec section 3).
tagLiteral == 0
tagCopy1 == 1
tagCopy2 == 2

\* snappy.go; encode.go:169 relies on maxBlockSize == 65536.
maxBlockSize == 65536

inputMargin == 16 - 1

minNonLiteralBlockSize == 1 + 1 + inputMargin

\* 1 << 14
maxTableSize == 16384

tableMask == maxTableSize - 1

\* snappy.go (spec section 6): the stream identifier chunk, 0xff 0x06 0x00
\* 0x00 "sNaPpY".
magicChunk == <<255, 6, 0, 0, 115, 78, 97, 80, 112, 89>>

\* snappy.go (spec section 3): the chunk types of the framing format.
chunkTypeCompressedData == 0
chunkTypeUncompressedData == 1
chunkTypeStreamIdentifier == 255

\* snappy.go (spec section 6): len(magicChunk) + 4 + 4.
obufHeaderLen == Len(magicChunk) + 4 + 4

errClosed == "snappy: Writer is closed"

\* The nil error.
nil == "nil"

----------------------------------------------------------------------------
(* Fixed-width arithmetic.                                                 *)

uint8(x) == x % 256

uint16(x) == x % 65536

RECURSIVE Pow2(_)
Pow2(k) == IF k = 0 THEN 1 ELSE 2 * Pow2(k - 1)

\* a | b on 8-bit operands.
RECURSIVE Or8(_, _)
Or8(a, b) ==
    IF a = 0 THEN b
    ELSE IF b = 0 THEN a
    ELSE (IF a % 2 = 1 \/ b % 2 = 1 THEN 1 ELSE 0) + 2 * Or8(a \div 2, b \div 2)

\* uint8(x) << k, the result again a uint8.
Shl8(x, k) == (uint8(x) * Pow2(k)) % 256

----------------------------------------------------------------------------
(* load32, load64: little-endian loads from b at Go index i.               *)

load32(b, i) == <<b[i + 1], b[i + 2], b[i + 3], b[i + 4]>>

load64(b, i) ==
    <<b[i + 1], b[i + 2], b[i + 3], b[i + 4], b[i + 5], b[i + 6], b[i + 7], b[i + 8]>>

\* uint32(x >> (8*k)) of a uint64 x, for k in 0..4.
Lo32(x, k) == <<x[k + 1], x[k + 2], x[k + 3], x[k + 4]>>

----------------------------------------------------------------------------
(* hash: (u * 0x1e35a7bd) >> shift on uint32.  0x1e35a7bd = 7733 * 2^16 +  *)
(* 42941.  With u = uh * 2^16 + ul the product modulo 2^32 has the high    *)
(* half (ul*42941 div 2^16 + ul*7733 + uh*42941) mod 2^16; every partial   *)
(* product below stays under 2^31.                                         *)

hashMulHi == 7733

hashMulLo == 42941

\* The high 16 bits of (u * 0x1e35a7bd) mod 2^32.
MulHigh16(u) ==
    LET ul == u[1] + 256 * u[2]
        a0 == u[1] * hashMulLo
        a1 == u[2] * hashMulLo
        carry == ((a0 \div 256) + a1) \div 256
        mid1 == (ul * hashMulHi) % 65536
        mid2 == (((u[3] * hashMulLo) % 65536) + 256 * ((u[4] * hashMulLo) % 256)) % 65536
    IN  (carry + mid1 + mid2) % 65536

\* The low 16 bits of (u * 0x1e35a7bd) mod 2^32.
MulLow16(u) ==
    (((u[1] * hashMulLo) % 65536) + 256 * ((u[2] * hashMulLo) % 256)) % 65536

hash(u, shift) ==
    IF shift >= 32 THEN 0
    ELSE IF shift >= 16 THEN MulHigh16(u) \div Pow2(shift - 16)
    ELSE (MulHigh16(u) * Pow2(16 - shift)) + (MulLow16(u) \div Pow2(shift))

----------------------------------------------------------------------------
(* emitLiteral: the bytes written to dst for the literal lit.              *)

\* emitLiteral with the one-byte form taken for n <= 60.
emitLiteral_Mut(lit) ==
    LET n == Len(lit) - 1
    IN  IF n <= 60 THEN <<Or8(Shl8(n, 2), tagLiteral)>> \o lit
        ELSE IF n < 256 THEN <<Or8(Shl8(60, 2), tagLiteral), uint8(n)>> \o lit
        ELSE <<Or8(Shl8(61, 2), tagLiteral), uint8(n), uint8(n \div 256)>> \o lit

emitLiteral(lit) ==
    LET n == Len(lit) - 1
    IN  IF n < 60 THEN <<Or8(Shl8(n, 2), tagLiteral)>> \o lit
        ELSE IF n < 256 THEN <<Or8(Shl8(60, 2), tagLiteral), uint8(n)>> \o lit
        ELSE <<Or8(Shl8(61, 2), tagLiteral), uint8(n), uint8(n \div 256)>> \o lit

----------------------------------------------------------------------------
(* emitCopy: the bytes written to dst for a copy of `length` bytes from    *)
(* `offset` bytes back.                                                    *)

\* The result of an emit function is [bytes, ops]: the bytes written to dst
\* and, beside them, the chunks they were written for, each as
\* [kind, offset, length].
opOf(kind, offset, length) == [kind |-> kind, offset |-> offset, length |-> length]

\* One tagCopy2 chunk (3 bytes).
Copy2Bytes(offset, length) ==
    <<Or8(Shl8(length - 1, 2), tagCopy2), uint8(offset), uint8(offset \div 256)>>

\* One tagCopy1 chunk (2 bytes).
Copy1Bytes(offset, length) ==
    <<Or8(Or8(Shl8(uint8(offset \div 256), 5), Shl8(length - 4, 2)), tagCopy1),
      uint8(offset)>>

emitCopy2(e, offset, length) ==
    [bytes |-> e.bytes \o Copy2Bytes(offset, length),
     ops |-> Append(e.ops, opOf("copy2", offset, length))]

emitCopy1(e, offset, length) ==
    [bytes |-> e.bytes \o Copy1Bytes(offset, length),
     ops |-> Append(e.ops, opOf("copy1", offset, length))]

\* One iteration of: for length >= 68 { emit a length 64 copy; length -= 64 }
\* on st = <<e, length>>; the identity once the loop has ended.
emitCopyStep(st, offset) ==
    IF st[2] >= 68 THEN <<emitCopy2(st[1], offset, 64), st[2] - 64>> ELSE st

\* The loop run to its end: at most n iterations are needed (evaluated by
\* halving, so that a long loop needs no deep recursion).
RECURSIVE emitCopyLoop(_, _, _)
emitCopyLoop(st, offset, n) ==
    IF st[2] < 68 THEN st
    ELSE IF n <= 1 THEN emitCopyStep(st, offset)
    ELSE emitCopyLoop(emitCopyLoop(st, offset, n \div 2), offset, n - (n \div 2))

\* if length > 64 { emit a length 60 copy; length -= 60 }
emitCopyPeel60(st, offset) ==
    IF st[2] > 64 THEN <<emitCopy2(st[1], offset, 60), st[2] - 60>> ELSE st

\* emitCopyTail with the tagCopy2 form taken from length 13 on.
emitCopyTail_Mut13(st, offset) ==
    IF st[2] >= 13 \/ offset >= 2048
    THEN emitCopy2(st[1], offset, st[2])
    ELSE emitCopy1(st[1], offset, st[2])

\* emitCopyTail with the tagCopy2 form taken from length 18 on.
emitCopyTail_Mut18(st, offset) ==
    IF st[2] >= 18 \/ offset >= 2048
    THEN emitCopy2(st[1], offset, st[2])
    ELSE emitCopy1(st[1], offset, st[2])

\* The remaining copy, as tagCopy2 or tagCopy1.
emitCopyTail(st, offset) ==
    IF st[2] >= 12 \/ offset >= 2048
    THEN emitCopy2(st[1], offset, st[2])
    ELSE emitCopy1(st[1], offset, st[2])

emitCopy(offset, length) ==
    LET start == <<[bytes |-> <<>>, ops |-> <<>>], length>>
        a == emitCopyLoop(start, offset, (length \div 64) + 1)
    IN  emitCopyTail(emitCopyPeel60(a, offset), offset)

----------------------------------------------------------------------------
(* encodeBlock.                                                            *)

\* tableLoop doubling only while the doubled size still fits the block.
RECURSIVE tableLoop_Mut(_, _, _)
tableLoop_Mut(shift, tableSize, srcLen) ==
    IF tableSize < maxTableSize /\ tableSize * 2 <= srcLen
    THEN tableLoop_Mut(shift - 1, tableSize * 2, srcLen)
    ELSE <<shift, tableSize>>

\* The loop of lines 177-180: shift and tableSize after it.
RECURSIVE tableLoop(_, _, _)
tableLoop(shift, tableSize, srcLen) ==
    IF tableSize < maxTableSize /\ tableSize < srcLen
    THEN tableLoop(shift - 1, tableSize * 2, srcLen)
    ELSE <<shift, tableSize>>

\* The hash table parameters <<shift, tableSize>> for a block of srcLen bytes.
tableParams(srcLen) == tableLoop(32 - 8, 256, srcLen)

\* var table [maxTableSize]uint16: all zero, kept as the finite map of the
\* slots written so far (every other slot reads 0).
emptyTable == <<>>

tableGet(table, h) ==
    LET k == h % (tableMask + 1)   \* h & tableMask
    IN  IF k + 1 \in DOMAIN table THEN table[k + 1] ELSE 0

tableSet(table, h, v) ==
    LET k == h % (tableMask + 1)   \* h & tableMask
    IN  [j \in (DOMAIN table) \cup {k + 1} |-> IF j = k + 1 THEN uint16(v) ELSE table[j]]

\* The number of leading positions at which src[i+j] = src[s+j], for at most
\* n positions.
RECURSIVE commonPrefix(_, _, _, _)
commonPrefix(src, i, s, n) ==
    IF n = 0 THEN 0
    ELSE IF SubSeq(src, i + 1, i + n) = SubSeq(src, s + 1, s + n) THEN n
    ELSE IF n = 1 THEN 0
    ELSE LET h == n \div 2
             l == commonPrefix(src, i, s, h)
         IN  IF l < h THEN l ELSE h + commonPrefix(src, i + h, s + h, n - h)

\* for i := candidate + 4; s < len(src) && src[i] == src[s]; i, s = i+1, s+1 {}
\* The value of s after the loop: s plus the run of agreeing bytes.
extendMatch(src, i, s) == s + commonPrefix(src, i, s, Len(src) - s)

\* d += emitLiteral(dst[d:], lit), on e = [bytes, ops].
addLiteral(e, lit) ==
    [bytes |-> e.bytes \o emitLiteral(lit),
     ops |-> Append(e.ops, opOf("literal", 0, Len(lit)))]

\* d += emitCopy(dst[d:], offset, length), on e = [bytes, ops].
addCopy(e, offset, length) ==
    LET c == emitCopy(offset, length)
    IN  [bytes |-> e.bytes \o c.bytes, ops |-> e.ops \o c.ops]

\* emitRemainder:
emitRemainder(src, nextEmit, dst) ==
    IF nextEmit < Len(src)
    THEN addLiteral(dst, SubSeq(src, nextEmit + 1, Len(src)))
    ELSE dst

(* encodeBlock's loops as one machine.  st.pc is the place in the code:   *)
(* "search" inside the search loop (lines 216-230), "copy" inside the copy *)
(* loop (lines 245-275), "done" after emitRemainder.  blockStep is one      *)
(* iteration of the loop st.pc names.                                      *)

\* Entering the outer loop body (lines 212-215): skip := 32; nextS := s.
enterSearch(st) == [st EXCEPT !.pc = "search", !.skip = 32, !.nextS = st.s]

\* goto emitRemainder, and the return.
finish(src, st, nextEmit, dst) ==
    [st EXCEPT !.pc = "done", !.nextEmit = nextEmit,
               !.dst = emitRemainder(src, nextEmit, dst)]

\* One iteration of the search loop; on break, the literal of line 235.
searchStep(src, shift, sLimit, st) ==
    LET s == st.nextS
        bytesBetweenHashLookups == st.skip \div 32
        nextS == s + bytesBetweenHashLookups
        skip == st.skip + bytesBetweenHashLookups
    IN  IF nextS > sLimit
        THEN finish(src, st, st.nextEmit, st.dst)
        ELSE LET candidate == tableGet(st.table, st.nextHash)
                 table == tableSet(st.table, st.nextHash, s)
                 nextHash == hash(load32(src, nextS), shift)
             IN  IF load32(src, s) = load32(src, candidate)
                 THEN [st EXCEPT !.pc = "copy", !.s = s, !.nextS = nextS,
                                 !.skip = skip, !.candidate = candidate,
                                 !.table = table, !.nextHash = nextHash,
                                 !.dst = addLiteral(st.dst,
                                              SubSeq(src, st.nextEmit + 1, s))]
                 ELSE [st EXCEPT !.s = s, !.nextS = nextS, !.skip = skip,
                                 !.candidate = candidate, !.table = table,
                                 !.nextHash = nextHash]

\* One iteration of the copy loop.
copyStep(src, shift, sLimit, st) ==
    LET base == st.s
        s == extendMatch(src, st.candidate + 4, st.s + 4)
        dst == addCopy(st.dst, base - st.candidate, s - base)
    IN  IF s >= sLimit
        THEN finish(src, st, s, dst)
        ELSE LET x == load64(src, s - 1)
                 prevHash == hash(Lo32(x, 0), shift)
                 table1 == tableSet(st.table, prevHash, s - 1)
                 currHash == hash(Lo32(x, 1), shift)
                 candidate == tableGet(table1, currHash)
                 table2 == tableSet(table1, currHash, s)
             IN  IF Lo32(x, 1) # load32(src, candidate)
                 THEN enterSearch([st EXCEPT !.s = s + 1, !.nextEmit = s,
                                             !.candidate = candidate,
                                             !.nextHash = hash(Lo32(x, 2), shift),
                                             !.table = table2, !.dst = dst])
                 ELSE [st EXCEPT !.s = s, !.nextEmit = s, !.candidate = candidate,
                                 !.table = table2, !.dst = dst]

blockStep(src, shift, sLimit, st) ==
    IF st.pc = "search" THEN searchStep(src, shift, sLimit, st)
    ELSE IF st.pc = "copy" THEN copyStep(src, shift, sLimit, st)
    ELSE st

\* The machine run to "done": every iteration advances s, so n = len(src)
\* iterations suffice (evaluated by halving).
RECURSIVE blockRun(_, _, _, _, _)
blockRun(src, shift, sLimit, st, n) ==
    IF st.pc = "done" THEN st
    ELSE IF n <= 1 THEN blockStep(src, shift, sLimit, st)
    ELSE blockRun(src, shift, sLimit,
                  blockRun(src, shift, sLimit, st, n \div 2), n - (n \div 2))

\* The state at the first iteration of the outer loop (lines 176-194).
blockStart(src) ==
    LET shift == tableParams(Len(src))[1]
    IN  enterSearch([pc |-> "search", s |-> 1, nextS |-> 1, skip |-> 32,
                     candidate |-> 0, nextEmit |-> 0,
                     nextHash |-> hash(load32(src, 1), shift),
                     table |-> emptyTable,
                     dst |-> [bytes |-> <<>>, ops |-> <<>>]])

\* encodeBlock's result as [bytes, ops].
encodeBlockRun(src) ==
    LET shift == tableParams(Len(src))[1]
        sLimit == Len(src) - inputMargin
    IN  blockRun(src, shift, sLimit, blockStart(src), Len(src)).dst

encodeBlock(src) == encodeBlockRun(src).bytes

----------------------------------------------------------------------------
(* Encode.                                                                 *)

\* binary.PutUvarint.
RECURSIVE PutUvarint(_)
PutUvarint(x) ==
    IF x >= 128 THEN <<uint8((x % 128) + 128)>> \o PutUvarint(x \div 128)
    ELSE <<uint8(x)>>

\* for len(src) > 0 { ... }
RECURSIVE encodeLoop(_, _)
encodeLoop(dst, src) ==
    IF Len(src) > 0
    THEN LET p == IF Len(src) > maxBlockSize THEN SubSeq(src, 1, maxBlockSize) ELSE src
             rest == IF Len(src) > maxBlockSize
                     THEN SubSeq(src, maxBlockSize + 1, Len(src)) ELSE <<>>
         IN  IF Len(p) < minNonLiteralBlockSize
             THEN encodeLoop(dst \o emitLiteral(p), rest)
             ELSE encodeLoop(dst \o encodeBlock(p), rest)
    ELSE dst

Encode(src) == encodeLoop(PutUvarint(Len(src)), src)

----------------------------------------------------------------------------
(* The block format read back (spec section 3): the decoder against which  *)
(* the encoder's output is judged.  decodeBlock(enc) is [ok, n, out,       *)
(* chunks]: n the leading varint, out the decoded bytes, chunks the tagged *)
(* chunks in order, each [kind, offset, length, at] with `at` the number   *)
(* of bytes decoded before it; ok is FALSE when enc is malformed or a copy *)
(* reaches before the start of the output.                                 *)

RECURSIVE uvarintAt(_, _)
uvarintAt(b, i) ==
    IF i > Len(b) THEN [ok |-> FALSE, v |-> 0, next |-> i]
    ELSE IF b[i] < 128 THEN [ok |-> TRUE, v |-> b[i], next |-> i + 1]
    ELSE LET r == uvarintAt(b, i + 1)
         IN  [ok |-> r.ok, v |-> (b[i] - 128) + 128 * r.v, next |-> r.next]

\* The little-endian value of the k bytes of enc after position pos (k <= 4).
RECURSIVE leValue(_, _, _)
leValue(enc, pos, k) ==
    IF k = 0 THEN 0 ELSE enc[pos + 1] + 256 * leValue(enc, pos + 1, k - 1)

decodeFail(st) == [st EXCEPT !.ok = FALSE, !.done = TRUE]

decodeLiteral(enc, st) ==
    LET v == enc[st.pos] \div 4
        extra == IF v < 60 THEN 0 ELSE v - 59
    IN  IF st.pos + extra > Len(enc) \/ (extra = 4 /\ enc[st.pos + 4] >= 64)
        THEN decodeFail(st)
        ELSE LET length == (IF v < 60 THEN v ELSE leValue(enc, st.pos, extra)) + 1
                 from == st.pos + 1 + extra
             IN  IF from + length - 1 > Len(enc)
                 THEN decodeFail(st)
                 ELSE [st EXCEPT !.pos = from + length,
                          !.out = st.out \o SubSeq(enc, from, from + length - 1),
                          !.chunks = Append(st.chunks,
                              [kind |-> "literal", offset |-> 0,
                               length |-> length, at |-> Len(st.out)])]

\* A copy of `length` bytes from `offset` back, byte by byte: the source may
\* overlap the bytes being written, which repeats the last `offset` bytes.
decodeCopy(st, kind, offset, length, size) ==
    IF offset < 1 \/ offset > Len(st.out)
    THEN decodeFail(st)
    ELSE [st EXCEPT !.pos = st.pos + size,
              !.out = st.out \o [j \in 1..length |->
                          st.out[Len(st.out) - offset + 1 + ((j - 1) % offset)]],
              !.chunks = Append(st.chunks,
                  [kind |-> kind, offset |-> offset, length |-> length,
                   at |-> Len(st.out)])]

decodeStep(enc, st) ==
    IF st.done THEN st
    ELSE IF st.pos > Len(enc) THEN [st EXCEPT !.done = TRUE]
    ELSE LET tag == enc[st.pos]
             kind == tag % 4
         IN  IF kind = tagLiteral THEN decodeLiteral(enc, st)
             ELSE IF kind = tagCopy1
             THEN IF st.pos + 1 > Len(enc) THEN decodeFail(st)
                  ELSE decodeCopy(st, "copy1",
                                  (tag \div 32) * 256 + enc[st.pos + 1],
                                  4 + ((tag \div 4) % 8), 2)
             ELSE IF kind = tagCopy2
             THEN IF st.pos + 2 > Len(enc) THEN decodeFail(st)
                  ELSE decodeCopy(st, "copy2", leValue(enc, st.pos, 2),
                                  1 + (tag \div 4), 3)
             ELSE IF st.pos + 4 > Len(enc) \/ enc[st.pos + 4] >= 64
                  THEN decodeFail(st)
                  ELSE decodeCopy(st, "copy4", leValue(enc, st.pos, 4),
                                  1 + (tag \div 4), 5)

\* Every chunk takes at least one byte of enc: n = Len(enc) + 1 steps reach
\* the end (evaluated by halving).
RECURSIVE decodeRun(_, _, _)
decodeRun(enc, st, n) ==
    IF st.done THEN st
    ELSE IF n <= 1 THEN decodeStep(enc, st)
    ELSE decodeRun(enc, decodeRun(enc, st, n \div 2), n - (n \div 2))

\* The chunks of enc from position pos on.
decodeChunks(enc, pos) ==
    decodeRun(enc, [pos |-> pos, out |-> <<>>, chunks |-> <<>>, ok |-> TRUE,
                    done |-> FALSE], Len(enc) + 1)

decodeBlock(enc) ==
    LET h == uvarintAt(enc, 1)
    IN  IF ~h.ok THEN [ok |-> FALSE, n |-> 0, out |-> <<>>, chunks |-> <<>>]
        ELSE LET st == decodeChunks(enc, h.next)
             IN  [ok |-> st.ok /\ st.done, n |-> h.v, out |-> st.out,
                  chunks |-> st.chunks]

----------------------------------------------------------------------------
(* The sink: the io.Writer under the Writer.  It keeps the bytes it        *)
(* accepted, the first error it returned, the number of Write calls it got *)
(* during the current operation, and the number of calls it got after it   *)
(* had returned an error.  A script [at, e, half] of the environment makes *)
(* the at-th call of the operation fail with error e, after the sink took  *)
(* none or half of the bytes; at = 0 is a sink that does not fail.         *)

newSink == [bytes |-> <<>>, err |-> nil, calls |-> 0, late |-> 0]

noFail == [at |-> 0, e |-> nil, half |-> FALSE]

\* w.w.Write(data): [sink, err].
sinkWrite(sink, data, script) ==
    LET k == sink.calls + 1
        fails == script.at = k
        taken == IF ~fails THEN data
                 ELSE IF script.half THEN SubSeq(data, 1, Len(data) \div 2)
                 ELSE <<>>
    IN  [sink |-> [bytes |-> sink.bytes \o taken,
                   err |-> IF sink.err = nil /\ fails THEN script.e ELSE sink.err,
                   calls |-> k,
                   late |-> sink.late + (IF sink.err # nil THEN 1 ELSE 0)],
         err |-> IF fails THEN script.e ELSE nil]

----------------------------------------------------------------------------
(* The Writer.  w = [buffered, err, ibuf, obuf, wroteStreamHeader]:        *)
(* buffered is ibuf != nil; obuf holds the first obufHeaderLen bytes of    *)
(* w.obuf (the stream identifier and the chunk header), the bytes after    *)
(* them being whatever Encode has just written there.                      *)

\* snappy.go: crc(b), the masked CRC-32C of b as a uint32 (spec section 3).
\* The checksum function itself lies outside encode.go; it is kept as a
\* fixed function of b into four bytes, which is all Writer.write uses.
crc(b) ==
    IF Len(b) = 0 THEN <<216, 234, 130, 162>>
    ELSE <<uint8(Len(b)), uint8(Len(b) \div 256), b[1], b[Len(b)]>>

NewWriter ==
    [buffered |-> FALSE, err |-> nil, ibuf |-> <<>>,
     obuf |-> [i \in 1..obufHeaderLen |-> 0], wroteStreamHeader |-> FALSE]

NewBufferedWriter ==
    [buffered |-> TRUE, err |-> nil, ibuf |-> <<>>,
     obuf |-> [i \in 1..obufHeaderLen |-> 0], wroteStreamHeader |-> FALSE]

\* Reset with the stream header flag left as it was.
Reset_MutHeader(w) == [w EXCEPT !.err = nil, !.ibuf = <<>>]

\* Reset(writer); the new sink is the caller's.
Reset(w) ==
    [w EXCEPT !.err = nil, !.ibuf = <<>>, !.wroteStreamHeader = FALSE]

\* obufStart (lines 425-430) with the stream identifier sent every time.
obufStartOf_Mut(w) == 0

\* obufStart (lines 425-430): where in obuf the bytes to send begin.
obufStartOf(w) == IF ~w.wroteStreamHeader THEN 0 ELSE Len(magicChunk)

\* The rest of p after its first block, with the split one byte late.
restOf_Mut(p) ==
    IF Len(p) > maxBlockSize THEN SubSeq(p, maxBlockSize + 2, Len(p)) ELSE <<>>

\* uncompressed, p = p[:maxBlockSize], p[maxBlockSize:] (lines 433-437).
blockOf(p) == IF Len(p) > maxBlockSize THEN SubSeq(p, 1, maxBlockSize) ELSE p

restOf(p) ==
    IF Len(p) > maxBlockSize THEN SubSeq(p, maxBlockSize + 1, Len(p)) ELSE <<>>

\* The chunk header of lines 453-460.
chunkHeader(chunkType, chunkLen, checksum) ==
    <<chunkType, uint8(chunkLen), uint8(chunkLen \div 256),
      uint8(chunkLen \div 65536),
      checksum[1], checksum[2], checksum[3], checksum[4]>>

\* One iteration of the loop of Writer.write (lines 424-474) on the block
\* uncompressed, whose encoding is compressed: [w, sink, n, err, more], more
\* telling whether the loop goes on.
writeChunk(w, sink, script, uncompressed, compressed, nRet) ==
    LET obufStart == obufStartOf(w)
        obuf1 == IF ~w.wroteStreamHeader
                 THEN magicChunk \o SubSeq(w.obuf, Len(magicChunk) + 1,
                                           obufHeaderLen)
                 ELSE w.obuf
        checksum == crc(uncompressed)
        raw == Len(compressed) >= Len(uncompressed) - (Len(uncompressed) \div 8)
        chunkType == IF raw THEN chunkTypeUncompressedData
                     ELSE chunkTypeCompressedData
        chunkLen == IF raw THEN 4 + Len(uncompressed) ELSE 4 + Len(compressed)
        obuf2 == SubSeq(obuf1, 1, Len(magicChunk))
                     \o chunkHeader(chunkType, chunkLen, checksum)
        \* w.obuf[obufStart:obufEnd]
        out == SubSeq(obuf2, obufStart + 1, obufHeaderLen)
                   \o (IF raw THEN <<>> ELSE compressed)
        w1 == [w EXCEPT !.wroteStreamHeader = TRUE, !.obuf = obuf2]
        r1 == sinkWrite(sink, out, script)
        r2 == sinkWrite(r1.sink, uncompressed, script)
    IN  IF r1.err # nil
        THEN [w |-> [w1 EXCEPT !.err = r1.err], sink |-> r1.sink,
              n |-> nRet, err |-> r1.err, more |-> FALSE]
        ELSE IF raw /\ r2.err # nil
        THEN [w |-> [w1 EXCEPT !.err = r2.err], sink |-> r2.sink,
              n |-> nRet, err |-> r2.err, more |-> FALSE]
        ELSE [w |-> w1, sink |-> IF raw THEN r2.sink ELSE r1.sink,
              n |-> nRet + Len(uncompressed), err |-> nil, more |-> TRUE]

\* The loop of Writer.write: [w, sink, n, err].
RECURSIVE writeLoop(_, _, _, _, _)
writeLoop(w, sink, script, p, nRet) ==
    LET next(c) == IF c.more THEN writeLoop(c.w, c.sink, script, restOf(p), c.n)
                   ELSE [w |-> c.w, sink |-> c.sink, n |-> c.n, err |-> c.err]
    IN  IF Len(p) = 0
        THEN [w |-> w, sink |-> sink, n |-> nRet, err |-> nil]
        ELSE next(writeChunk(w, sink, script, blockOf(p), Encode(blockOf(p)),
                             nRet))

\* Writer.write with the latched error not looked at.
write_MutNoLatch(w, sink, script, p) == writeLoop(w, sink, script, p, 0)

\* Writer.write(p): [w, sink, n, err].
write(w, sink, script, p) ==
    IF w.err # nil
    THEN [w |-> w, sink |-> sink, n |-> 0, err |-> w.err]
    ELSE writeLoop(w, sink, script, p, 0)

\* The end of Flush (lines 485-487), r being what w.write returned.
flushed(r) ==
    [w |-> [r.w EXCEPT !.ibuf = <<>>], sink |-> r.sink, err |-> r.w.err]

\* Flush discarding the buffered bytes instead of writing them.
Flush_MutDrop(w, sink, script) ==
    IF w.err # nil THEN [w |-> w, sink |-> sink, err |-> w.err]
    ELSE [w |-> [w EXCEPT !.ibuf = <<>>], sink |-> sink, err |-> nil]

\* Writer.Flush(): [w, sink, err].
Flush(w, sink, script) ==
    IF w.err # nil THEN [w |-> w, sink |-> sink, err |-> w.err]
    ELSE IF Len(w.ibuf) = 0 THEN [w |-> w, sink |-> sink, err |-> nil]
    ELSE flushed(write(w, sink, script, w.ibuf))

\* The end of Close without latching errClosed.
closed_MutNoLatch(f) == [w |-> f.w, sink |-> f.sink, err |-> f.w.err]

\* The end of Close (lines 493-497), f being what w.Flush left.
closedAfter(f) ==
    [w |-> IF f.w.err = nil THEN [f.w EXCEPT !.err = errClosed] ELSE f.w,
     sink |-> f.sink, err |-> f.w.err]

\* Writer.Close(): [w, sink, err].
Close(w, sink, script) == closedAfter(Flush(w, sink, script))

\* n = copy(w.ibuf[len(w.ibuf):cap(w.ibuf)], p), cap(w.ibuf) = maxBlockSize.
copyLen(w, p) ==
    IF Len(p) < maxBlockSize - Len(w.ibuf) THEN Len(p)
    ELSE maxBlockSize - Len(w.ibuf)

\* The buffered part of Writer.Write (lines 397-417): [w, sink, n, err].
RECURSIVE writeBuffered(_, _, _, _, _)
writeBuffered(w, sink, script, p, nRet) ==
    LET direct(r) == writeBuffered(r.w, r.sink, script,
                                   SubSeq(p, r.n + 1, Len(p)), nRet + r.n)
        filled(n, f) == writeBuffered(f.w, f.sink, script,
                                      SubSeq(p, n + 1, Len(p)), nRet + n)
        n == copyLen(w, p)
        w1 == [w EXCEPT !.ibuf = w.ibuf \o SubSeq(p, 1, n)]
    IN  IF Len(p) > maxBlockSize - Len(w.ibuf) /\ w.err = nil
        THEN IF Len(w.ibuf) = 0
             THEN direct(write(w, sink, script, p))
             ELSE filled(n, Flush(w1, sink, script))
        ELSE IF w.err # nil
        THEN [w |-> w, sink |-> sink, n |-> nRet, err |-> w.err]
        ELSE [w |-> w1, sink |-> sink, n |-> nRet + n, err |-> nil]

\* Writer.Write(p): [w, sink, n, err].
Write(w, sink, script, p) ==
    IF ~w.buffered THEN write(w, sink, script, p)
    ELSE writeBuffered(w, sink, script, p, 0)

----------------------------------------------------------------------------
(* Inputs of the block encoder.                                            *)

\* The longest input of the exhaustive family.
MaxShort == 3

\* The longest input of the periodic family.
MaxPatLen == 90

\* The longest period of the periodic family.
MaxPeriod == 4

\* The two byte values of the exhaustive family.
ShortBytes == {97, 98}

RECURSIVE SeqsUpTo(_, _)
SeqsUpTo(S, n) ==
    IF n = 0 THEN {<<>>}
    ELSE LET r == SeqsUpTo(S, n - 1)
         IN  r \cup {Append(q, b) : q \in {t \in r : Len(t) = n - 1}, b \in S}

\* n times the byte b.
Rep(b, n) == [i \in 1..n |-> b]

\* n bytes of period p.
Periodic(n, p) == [i \in 1..n |-> 97 + ((i - 1) % p)]

\* A byte stream without a repeated 4-byte window in its first 2000 bytes.
noiseByte(i) == ((((i * i) % 4093) * 7) + ((i % 61) * 3) + (i \div 64)) % 256

Noise(n) == [i \in 1..n |-> noiseByte(i - 1)]

\* p periodic bytes, then noise: a match that ends before the input does.
PeriodicThenNoise(n, p, k) ==
    [i \in 1..n |-> IF i <= k THEN 97 + ((i - 1) % p) ELSE noiseByte(i)]

\* 32 bytes of noise, a run of `gap` equal bytes, `ml` bytes from place k of
\* the noise again, and 20 bytes of other noise: a short match far back.
Marker(gap, k, ml) ==
    [i \in 1..(32 + gap + ml + 20) |->
        IF i <= 32 THEN noiseByte(i - 1)
        ELSE IF i <= 32 + gap THEN 120
        ELSE IF i <= 32 + gap + ml THEN noiseByte(k + (i - 32 - gap) - 1)
        ELSE noiseByte(1000 + i)]

BlockInputs ==
    SeqsUpTo(ShortBytes, MaxShort)
    \cup {Periodic(n, p) : n \in 4..MaxPatLen, p \in 1..MaxPeriod}
    \cup {Noise(n) : n \in {16, 17, 18, 60, 61, 256, 257, 300, 600}}
    \cup {PeriodicThenNoise(n, p, k) : n \in {40, 100}, p \in 1..MaxPeriod,
                                       k \in {12, 20, 24, 36}}
    \cup {Marker(gap, k, ml) : gap \in {60, 2100}, k \in {4, 8},
                               ml \in {4, 6, 11, 12, 20}}
    \cup {Rep(0, n) : n \in {maxBlockSize - 1, maxBlockSize, maxBlockSize + 1,
                             maxBlockSize + 16, maxBlockSize + 17, 70000,
                             2 * maxBlockSize + 5}}

CopyArgs ==
    {[kind |-> "copy", offset |-> o, length |-> l] :
        o \in {1, 2, 255, 256, 2047, 2048, 65535},
        l \in (4..140) \cup {4095, 65535}}

LenArgs == {[kind |-> "len", n |-> n] : n \in minNonLiteralBlockSize..maxBlockSize}

BlockArgs ==
    {[kind |-> "bytes", src |-> b] : b \in BlockInputs} \cup CopyArgs \cup LenArgs

----------------------------------------------------------------------------
(* The block encoder's specification: an input is drawn and one of the     *)
(* package's functions is applied to it.                                   *)

VARIABLES
    arg,      \* block encoder: the input drawn
    ret,      \* block encoder: the function applied and its result
    w,        \* the Writer
    sink,     \* the io.Writer it writes to
    last,     \* the last call on the Writer and what it returned
    hist,     \* the calls made since creation or the last Reset
    closed,   \* whether Close has been called since then
    fresh,    \* after a Reset: a newly created Writer given the same calls
    nops      \* the number of calls made

vars == <<arg, ret, w, sink, last, hist, closed, fresh, nops>>

writerVars == <<w, sink, last, hist, closed, fresh, nops>>

noCall == [op |-> "none", len |-> 0, n |-> 0, err |-> nil, calls |-> 0,
           afterClose |-> FALSE, errBefore |-> nil]

noFresh == [on |-> FALSE]

WriterIdle ==
    /\ w = NewWriter
    /\ sink = newSink
    /\ last = noCall
    /\ hist = <<>>
    /\ closed = FALSE
    /\ fresh = noFresh
    /\ nops = 0

BlockInit ==
    /\ arg \in BlockArgs
    /\ ret = [op |-> "none"]
    /\ WriterIdle

CallEncode ==
    /\ ret.op = "none"
    /\ arg.kind = "bytes"
    /\ ret' = [op |-> "Encode", bytes |-> Encode(arg.src)]
    /\ UNCHANGED <<arg, writerVars>>

CallEncodeBlock ==
    /\ ret.op = "none"
    /\ arg.kind = "bytes"
    /\ minNonLiteralBlockSize <= Len(arg.src)
    /\ Len(arg.src) <= maxBlockSize
    /\ LET r == encodeBlockRun(arg.src)
       IN  ret' = [op |-> "encodeBlock", bytes |-> r.bytes, ops |-> r.ops]
    /\ UNCHANGED <<arg, writerVars>>

CallEmitLiteral ==
    /\ ret.op = "none"
    /\ arg.kind = "bytes"
    /\ 1 <= Len(arg.src)
    /\ Len(arg.src) <= maxBlockSize
    /\ ret' = [op |-> "emitLiteral", bytes |-> emitLiteral(arg.src)]
    /\ UNCHANGED <<arg, writerVars>>

CallEmitCopy ==
    /\ ret.op = "none"
    /\ arg.kind = "copy"
    /\ LET r == emitCopy(arg.offset, arg.length)
       IN  ret' = [op |-> "emitCopy", bytes |-> r.bytes, ops |-> r.ops]
    /\ UNCHANGED <<arg, writerVars>>

CallTableParams ==
    /\ ret.op = "none"
    /\ arg.kind = "len"
    /\ LET r == tableParams(arg.n)
       IN  ret' = [op |-> "tableParams", shift |-> r[1], tableSize |-> r[2]]
    /\ UNCHANGED <<arg, writerVars>>

BlockNext ==
    \/ CallEncode
    \/ CallEncodeBlock
    \/ CallEmitLiteral
    \/ CallEmitCopy
    \/ CallTableParams

SpecBlock == BlockInit /\ [][BlockNext]_vars

----------------------------------------------------------------------------
(* The Writer's specification: a Writer is created, buffered or not, and   *)
(* the caller makes up to MaxOps calls of Write, Flush, Close and Reset on *)
(* it, one after the other (spec section 5: calls are serialized by the    *)
(* caller), while the environment chooses whether and where the sink       *)
(* fails.                                                                  *)

\* The number of calls in a behaviour.
MaxOps == 4

\* The bytes passed to Write between two Resets.
MaxBytes == 140000

\* The latest sink call of an operation that the environment may fail.
MaxFailAt == 2

Errors == {"e1", "e2"}

Scripts ==
    {noFail} \cup {[at |-> a, e |-> e, half |-> h] :
                      a \in 1..MaxFailAt, e \in Errors, h \in BOOLEAN}

\* n bytes in runs of k: k bytes 1, k bytes 2, and so on.
Steps(n, k) == [i \in 1..n |-> 1 + (((i - 1) \div k) % 255)]

\* What the caller writes: nothing, a few bytes, a short compressible and a
\* short incompressible block, runs of 'x' that fill and overfill the
\* 65536-byte input buffer, and more than a block of stepped bytes, which
\* shows any byte gone missing, sent again or out of place.
Payload ==
    [empty |-> <<>>,
     few   |-> <<1, 2, 3>>,
     run   |-> Rep(120, 20),
     noise |-> Noise(40),
     x40k  |-> Rep(120, 40000),
     x60k  |-> Rep(120, 60000),
     s70k  |-> Steps(70000, 6000)]

ShortPayloads == {"empty", "few", "run", "s70k"}

LongPayloads == {"few", "x40k", "x60k", "s70k"}

\* The bytes passed to Write by the calls h, up to the first Close.
RECURSIVE writtenOf(_)
writtenOf(h) ==
    IF h = <<>> \/ Head(h).op = "Close" THEN <<>>
    ELSE IF Head(h).op = "Write" THEN Payload[Head(h).p] \o writtenOf(Tail(h))
    ELSE writtenOf(Tail(h))

RECURSIVE histLen(_)
histLen(h) ==
    IF h = <<>> THEN 0
    ELSE (IF Head(h).op = "Write" THEN Len(Payload[Head(h).p]) ELSE 0)
             + histLen(Tail(h))

WriterInit ==
    /\ arg = [kind |-> "none"]
    /\ ret = [op |-> "none"]
    /\ w \in {NewWriter, NewBufferedWriter}
    /\ sink = newSink
    /\ last = noCall
    /\ hist = <<>>
    /\ closed = FALSE
    /\ fresh = noFresh
    /\ nops = 0

\* The sink at the start of an operation.
atCall(k) == [k EXCEPT !.calls = 0]

\* The record of a call that returned [n, err] on sink k: what it returned,
\* the sink calls it made, whether Close had been called before it and the
\* error the sink had returned before it.
callOf(op, len, n, err, k) ==
    [op |-> op, len |-> len, n |-> n, err |-> err, calls |-> k.calls,
     afterClose |-> closed, errBefore |-> sink.err]

\* The Writer created at the last Reset, after the same call.
freshAfter(op, len, r) ==
    [on |-> TRUE, w |-> r.w, sink |-> r.sink,
     last |-> callOf(op, len, r.n, r.err, r.sink), from |-> fresh.from]

\* Flush and Close return an error only.
noCount(r) == [w |-> r.w, sink |-> r.sink, n |-> 0, err |-> r.err]

\* The Writer, its sink and the call's record after a call that returned r.
Returned(op, len, r) ==
    /\ w' = r.w
    /\ sink' = r.sink
    /\ last' = callOf(op, len, r.n, r.err, r.sink)

DoWrite(k, script) ==
    /\ nops < MaxOps
    /\ histLen(hist) + Len(Payload[k]) <= MaxBytes
    /\ Returned("Write", Len(Payload[k]),
                Write(w, atCall(sink), script, Payload[k]))
    /\ fresh' = IF fresh.on
                THEN freshAfter("Write", Len(Payload[k]),
                                Write(fresh.w, atCall(fresh.sink), script,
                                      Payload[k]))
                ELSE fresh
    /\ hist' = Append(hist, [op |-> "Write", p |-> k])
    /\ nops' = nops + 1
    /\ UNCHANGED <<arg, ret, closed>>

DoFlush(script) ==
    /\ nops < MaxOps
    /\ Returned("Flush", 0, noCount(Flush(w, atCall(sink), script)))
    /\ fresh' = IF fresh.on
                THEN freshAfter("Flush", 0,
                                noCount(Flush(fresh.w, atCall(fresh.sink),
                                              script)))
                ELSE fresh
    /\ hist' = Append(hist, [op |-> "Flush", p |-> "empty"])
    /\ nops' = nops + 1
    /\ UNCHANGED <<arg, ret, closed>>

DoClose(script) ==
    /\ nops < MaxOps
    /\ Returned("Close", 0, noCount(Close(w, atCall(sink), script)))
    /\ fresh' = IF fresh.on
                THEN freshAfter("Close", 0,
                                noCount(Close(fresh.w, atCall(fresh.sink),
                                              script)))
                ELSE fresh
    /\ hist' = Append(hist, [op |-> "Close", p |-> "empty"])
    /\ closed' = TRUE
    /\ nops' = nops + 1
    /\ UNCHANGED <<arg, ret>>

\* Reset(writer) with a sink that has taken nothing yet.
DoReset ==
    /\ nops < MaxOps
    /\ w' = Reset(w)
    /\ sink' = newSink
    /\ last' = [noCall EXCEPT !.op = "Reset"]
    /\ fresh' = [on |-> TRUE,
                 w |-> IF w.buffered THEN NewBufferedWriter ELSE NewWriter,
                 sink |-> newSink,
                 last |-> [noCall EXCEPT !.op = "Reset"],
                 from |-> [err |-> w.err, ibufLen |-> Len(w.ibuf),
                           wroteStreamHeader |-> w.wroteStreamHeader]]
    /\ hist' = <<>>
    /\ closed' = FALSE
    /\ nops' = nops + 1
    /\ UNCHANGED <<arg, ret>>

WriterNext ==
    \/ \E k \in ShortPayloads, script \in Scripts : DoWrite(k, script)
    \/ \E script \in Scripts : DoFlush(script)
    \/ \E script \in Scripts : DoClose(script)
    \/ DoReset

SpecWriter == WriterInit /\ [][WriterNext]_vars

\* The Writer on a sink that never fails, given writes that fill and
\* overfill its input buffer.
StreamNext ==
    \/ \E k \in LongPayloads : DoWrite(k, noFail)
    \/ DoFlush(noFail)
    \/ DoClose(noFail)

StreamInit ==
    /\ WriterInit
    /\ w = NewBufferedWriter

SpecStream == StreamInit /\ [][StreamNext]_vars

----------------------------------------------------------------------------
(* C1: block round trip.  Whatever src is (empty, shorter than 17 bytes,   *)
(* one block, several blocks), Encode(src) is the varint of len(src)       *)
(* followed by chunks that decode to src exactly, their lengths summing to *)
(* len(src).                                                               *)

RECURSIVE sumLengths(_, _, _)
sumLengths(chunks, lo, hi) ==
    IF lo > hi THEN 0
    ELSE IF lo = hi THEN chunks[lo].length
    ELSE LET mid == (lo + hi) \div 2
         IN  sumLengths(chunks, lo, mid) + sumLengths(chunks, mid + 1, hi)

\* C1: Encode(src) is the varint of len(src) followed by chunks that decode,
\* in order, to src exactly, and whose lengths sum to len(src).
C1_RoundTrip ==
    ret.op = "Encode" =>
        LET d == decodeBlock(ret.bytes)
        IN  /\ d.ok
            /\ d.n = Len(arg.src)
            /\ d.out = arg.src
            /\ sumLengths(d.chunks, 1, Len(d.chunks)) = Len(arg.src)
            /\ SubSeq(ret.bytes, 1, Len(PutUvarint(Len(arg.src))))
                   = PutUvarint(Len(arg.src))

\* An input of several blocks has been encoded with copies in it.
C1_Witness ==
    /\ ret.op = "Encode"
    /\ Len(arg.src) > 2 * maxBlockSize
    /\ LET c == decodeBlock(ret.bytes).chunks
       IN  /\ c[Len(c)].kind = "literal"
           /\ \E i \in 1..Len(c) : c[i].kind = "copy2"

----------------------------------------------------------------------------
(* C8: scenario S3, the 18-byte input 'a' x 18.                            *)

A18 == Rep(97, 18)

\* C8 as stated: after the varint, a literal chunk and then a COPY_1 of
\* length 14 at offset 1.
C8_Original ==
    (ret.op = "Encode" /\ arg.src = A18) =>
        LET c == decodeBlock(ret.bytes).chunks
        IN  /\ Len(c) = 2
            /\ c[1].kind = "literal"
            /\ c[2].kind = "copy1" /\ c[2].length = 14 /\ c[2].offset = 1

\* C8 amended: Encode('a' x 18) is the varint 18, a literal chunk carrying
\* one byte 'a' and a COPY_2 (3 bytes, tag 0b10) of length 17 at offset 1:
\* the bytes 0x12 0x00 'a' 0x42 0x01 0x00.
C8_Amended ==
    (ret.op = "Encode" /\ arg.src = A18) =>
        LET c == decodeBlock(ret.bytes).chunks
        IN  /\ ret.bytes = <<18, 0, 97, 66, 1, 0>>
            /\ Len(c) = 2
            /\ c[1] = [kind |-> "literal", offset |-> 0, length |-> 1, at |-> 0]
            /\ c[2] = [kind |-> "copy2", offset |-> 1, length |-> 17, at |-> 1]

\* Encode has been applied to 'a' x 18.
C8_Witness == ret.op = "Encode" /\ arg.src = A18

----------------------------------------------------------------------------
(* C9: copy validity.  For a block of 17..65536 bytes every copy chunk     *)
(* encodeBlock writes, each piece emitCopy peels off a long match          *)
(* included, has 1 <= offset <= 65535, offset <= the bytes decoded before  *)
(* it, 4 <= length <= 64 (a COPY_1: 4 <= length <= 11, offset <= 2047),    *)
(* and the first chunk is a literal.  The chunks are read both as the      *)
(* encoder meant them (ret.ops) and as they parse from the bytes written.  *)

validCopy(op) ==
    op.kind # "literal" =>
        /\ op.kind \in {"copy1", "copy2"}
        /\ 1 <= op.offset /\ op.offset <= 65535
        /\ 4 <= op.length /\ op.length <= 64
        /\ op.kind = "copy1" => (op.length <= 11 /\ op.offset <= 2047)

\* C9: the first chunk of a block is a literal and every copy chunk has
\* 1 <= offset <= 65535, offset <= the bytes decoded before it and
\* 4 <= length <= 64 (a COPY_1: length <= 11 and offset <= 2047).
C9_CopyValidity ==
    ret.op = "encodeBlock" =>
        LET d == decodeChunks(ret.bytes, 1)
        IN  /\ d.ok /\ d.done
            /\ Len(d.chunks) = Len(ret.ops)
            /\ Len(ret.ops) >= 1
            /\ ret.ops[1].kind = "literal"
            /\ d.chunks[1].kind = "literal"
            /\ \A i \in 1..Len(ret.ops) :
                   /\ validCopy(ret.ops[i])
                   /\ d.chunks[i].kind = ret.ops[i].kind
                   /\ d.chunks[i].offset = ret.ops[i].offset
                   /\ d.chunks[i].length = ret.ops[i].length
                   /\ ret.ops[i].kind # "literal" =>
                          ret.ops[i].offset <= d.chunks[i].at

\* A block whose chunks hold pieces of length 64 peeled off a long match, a
\* short COPY_2 forced by an offset of 2048 or more, and a literal first.
C9_Witness ==
    /\ ret.op = "encodeBlock"
    /\ \E i \in 1..Len(ret.ops) :
           ret.ops[i].kind = "copy2" /\ ret.ops[i].length = 64
    /\ \E i \in 1..Len(ret.ops) :
           /\ ret.ops[i].kind = "copy2"
           /\ ret.ops[i].offset >= 2048
           /\ ret.ops[i].length < 12

----------------------------------------------------------------------------
(* C10: hash table sizing for a block of 17..65536 bytes.                  *)

TableSizes == {Pow2(k) : k \in 8..14}

\* C10 as stated: tableSize is the largest power of two in [256, 16384]
\* that does not exceed len(src), and shift = 32 - log2(tableSize).
C10_Original ==
    ret.op = "tableParams" =>
        /\ ret.tableSize \in TableSizes
        /\ ret.tableSize <= arg.n
        /\ \A t \in TableSizes : t <= arg.n => t <= ret.tableSize
        /\ Pow2(32 - ret.shift) = ret.tableSize

\* C10 amended: tableSize is the smallest power of two in [256, 16384] that
\* is at least len(src), or 16384 when len(src) exceeds 16384, and
\* shift = 32 - log2(tableSize).
C10_Amended ==
    ret.op = "tableParams" =>
        /\ ret.tableSize \in TableSizes
        /\ ret.tableSize >= arg.n \/ ret.tableSize = maxTableSize
        /\ \A t \in TableSizes : t >= arg.n => t >= ret.tableSize
        /\ ret.shift \in 18..24
        /\ Pow2(32 - ret.shift) = ret.tableSize

\* A block length strictly between two powers of two.
C10_Witness == ret.op = "tableParams" /\ arg.n = 300 /\ ret.tableSize = 512

----------------------------------------------------------------------------
(* Reading back what the sink holds (framing format, spec section 3): a    *)
(* sequence of chunks, each one type byte, a 3-byte little-endian length   *)
(* and that many bytes; a data chunk's bytes are a 4-byte checksum and the *)
(* block, Snappy-encoded (type 0x00) or as it is (type 0x01).  The last    *)
(* chunk may be cut short by a sink that failed part way.                  *)

\* The chunks of b from offset pos on: type, length, offset, and whether
\* the chunk is there in full.
RECURSIVE frames(_, _)
frames(b, pos) ==
    IF pos >= Len(b) THEN <<>>
    ELSE IF Len(b) - pos < 4
    THEN <<[type |-> b[pos + 1], len |-> 0, at |-> pos, whole |-> FALSE]>>
    ELSE LET n == leValue(b, pos + 1, 3)
         IN  IF Len(b) - pos < 4 + n
             THEN <<[type |-> b[pos + 1], len |-> n, at |-> pos,
                     whole |-> FALSE]>>
             ELSE <<[type |-> b[pos + 1], len |-> n, at |-> pos,
                     whole |-> TRUE]>> \o frames(b, pos + 4 + n)

dataTypes == {chunkTypeCompressedData, chunkTypeUncompressedData}

\* The uncompressed contents of the data chunk f of b: [ok, out].
chunkData(b, f) ==
    LET body == SubSeq(b, f.at + 9, f.at + 4 + f.len)
        blk(d) == [ok |-> d.ok /\ d.n = Len(d.out), out |-> d.out]
    IN  IF ~f.whole \/ f.len < 4 THEN [ok |-> FALSE, out |-> <<>>]
        ELSE IF f.type = chunkTypeUncompressedData
        THEN [ok |-> TRUE, out |-> body]
        ELSE blk(decodeBlock(body))

\* The stream b decoded from its chunk i on: whether every chunk is whole
\* and well formed, the uncompressed contents of its data chunks in order,
\* and the length of each.
RECURSIVE decodeFrames(_, _, _, _)
decodeFrames(b, f, i, acc) ==
    LET more(c) == decodeFrames(b, f, i + 1,
                                [ok |-> acc.ok /\ c.ok,
                                 data |-> acc.data \o c.out,
                                 lens |-> Append(acc.lens, Len(c.out))])
    IN  IF i > Len(f) THEN acc
        ELSE IF f[i].type = chunkTypeStreamIdentifier
        THEN decodeFrames(b, f, i + 1,
                          [acc EXCEPT !.ok = /\ acc.ok
                                             /\ f[i].whole
                                             /\ SubSeq(b, f[i].at + 1,
                                                       f[i].at + 4 + f[i].len)
                                                    = magicChunk])
        ELSE IF f[i].type \in dataTypes THEN more(chunkData(b, f[i]))
        ELSE [acc EXCEPT !.ok = FALSE]

decodeStream(b) ==
    decodeFrames(b, frames(b, 0), 1, [ok |-> TRUE, data |-> <<>>, lens |-> <<>>])

\* The last call was made before any Close.
firstClose == last.op = "Close" /\ ~last.afterClose

----------------------------------------------------------------------------
(* C2: a buffered Writer on a sink that never fails loses, duplicates and  *)
(* reorders nothing.                                                       *)

\* C2: for a buffered Writer whose sink never fails, every Write made
\* before Close returns (len(p), nil), and after Close the uncompressed
\* contents of the data chunks delivered, in delivery order, are the bytes
\* passed to Write, in call order, and the input buffer is empty.
C2_NothingLost ==
    (w.buffered /\ sink.err = nil) =>
        /\ (last.op = "Write" /\ ~last.afterClose) =>
               (last.n = last.len /\ last.err = nil)
        /\ firstClose =>
               LET d == decodeStream(sink.bytes)
               IN  /\ last.err = nil
                   /\ d.ok
                   /\ d.data = writtenOf(hist)
                   /\ w.ibuf = <<>>

\* Close after writes that fill the input buffer, overflow it and leave a
\* partial block in it.
C2_Witness ==
    /\ w.buffered
    /\ firstClose
    /\ hist = <<[op |-> "Write", p |-> "x40k"], [op |-> "Write", p |-> "x60k"],
                [op |-> "Write", p |-> "few"], [op |-> "Close", p |-> "empty"]>>
    /\ decodeStream(sink.bytes).lens = <<65536, 34467>>

----------------------------------------------------------------------------
(* C3: error latching.                                                     *)

\* C3: once a sink write made by the Writer has returned an error e, every
\* later Write, Flush and Close on it (until Reset), buffered or not,
\* returns e and makes no call to the sink; the call that met the error
\* makes no further sink call either.
C3_ErrorLatched ==
    /\ last.errBefore # nil =>
           (last.err = last.errBefore /\ last.calls = 0)
    /\ sink.late = 0
    /\ sink.err # nil => w.err = sink.err

\* A Close on a buffered Writer whose Flush had failed.
C3_Witness ==
    /\ w.buffered
    /\ last.op = "Close"
    /\ last.errBefore \in Errors
    /\ last.err = last.errBefore
    /\ Len(hist) >= 3

----------------------------------------------------------------------------
(* C4: Closed is terminal.                                                 *)

\* C4 as stated: after Close (and no Reset since) every Write, Flush and
\* Close returns errClosed and writes nothing to the sink, whatever
\* preceded the Close.
C4_Original ==
    last.afterClose => (last.err = errClosed /\ last.calls = 0)

\* C4 amended: after Close (and no Reset since) every Write, Flush and
\* Close writes nothing to the sink, and returns errClosed when no sink
\* write had failed by the end of that Close; when one had failed with e,
\* it returns e, the latched error, and never errClosed.
C4_Amended ==
    last.afterClose =>
        /\ last.calls = 0
        /\ last.n = 0
        /\ sink.err = nil => last.err = errClosed
        /\ sink.err # nil => last.err = sink.err

\* A Write of some bytes after a Close that had delivered a stream.
C4_Witness ==
    /\ last.afterClose
    /\ last.op = "Write"
    /\ last.len > 0
    /\ last.err = errClosed
    /\ sink.bytes # <<>>

----------------------------------------------------------------------------
(* C5: the stream identifier, once and first.                              *)

\* C5: between creation (or the last Reset) and the next Reset the sink is
\* given the 10-byte stream identifier chunk at most once, exactly once if
\* it is given any data chunk, and before anything else.
C5_StreamIdentifier ==
    LET f == frames(sink.bytes, 0)
        ids == {i \in 1..Len(f) : f[i].type = chunkTypeStreamIdentifier}
        data == {i \in 1..Len(f) : f[i].type \in dataTypes}
        k == IF Len(sink.bytes) < Len(magicChunk) THEN Len(sink.bytes)
             ELSE Len(magicChunk)
    IN  /\ Cardinality(ids) <= 1
        /\ ids \cup data = 1..Len(f)
        /\ SubSeq(sink.bytes, 1, k) = SubSeq(magicChunk, 1, k)
        /\ data # {} => (ids = {1} /\ f[1].whole)

\* Three data chunks delivered by two calls after one stream identifier.
C5_Witness ==
    LET f == frames(sink.bytes, 0)
    IN  /\ Len(f) = 4
        /\ \A i \in 1..4 : f[i].whole
        /\ f[2].type = chunkTypeCompressedData
        /\ f[4].type = chunkTypeUncompressedData

----------------------------------------------------------------------------
(* C6: Flush and the byte stream.                                          *)

\* The stream a buffered Writer delivers for one Write of data and Close.
singleCall(data) ==
    LET closing(r) == Close(r.w, r.sink, noFail).sink.bytes
    IN  closing(Write(NewBufferedWriter, newSink, noFail, data))

\* Write calls with a Flush between two of them, then Close.
flushBetween ==
    /\ w.buffered
    /\ firstClose
    /\ sink.err = nil
    /\ \E i, j, k \in 1..Len(hist) :
           /\ i < j /\ j < k
           /\ hist[i].op = "Write" /\ hist[j].op = "Flush"
           /\ hist[k].op = "Write"

\* Scenario S6: 100000 bytes 'x', a Flush after the first 40000.
S6 == <<[op |-> "Write", p |-> "x40k"], [op |-> "Flush", p |-> "empty"],
        [op |-> "Write", p |-> "x60k"], [op |-> "Close", p |-> "empty"]>>

\* C6 as stated: the stream delivered is byte for byte the stream of a
\* single Write of the same input followed by Close.
C6_Original ==
    flushBetween => sink.bytes = singleCall(writtenOf(hist))

\* C6 amended: the stream delivered decodes to the same bytes, in the same
\* order, as the stream of a single Write of the same input followed by
\* Close, but it is not the same stream: each Flush that finds bytes
\* buffered ends the data chunk there, so the two have the same bytes only
\* when they cut the input into the same blocks (S6 is cut 40000 + 60000,
\* the single Write 65536 + 34464).
C6_Amended ==
    flushBetween =>
        LET one == singleCall(writtenOf(hist))
            d == decodeStream(sink.bytes)
            d1 == decodeStream(one)
        IN  /\ d.ok /\ d1.ok
            /\ d.data = d1.data
            /\ d.data = writtenOf(hist)
            /\ (d.lens = d1.lens) <=> (sink.bytes = one)
            /\ hist = S6 =>
                   /\ d.lens = <<40000, 60000>>
                   /\ d1.lens = <<65536, 34464>>
                   /\ sink.bytes # one

\* Scenario S6 has been run to its Close.
C6_Witness == flushBetween /\ hist = S6

----------------------------------------------------------------------------
(* C7: Reset restores the fresh state.                                     *)

\* What a call returned and did to its sink.
returned(l) == <<l.op, l.len, l.n, l.err, l.calls>>

\* C7: after Reset on a buffered Writer in any reachable state the Writer
\* has no buffered input, no latched error and the stream header flag
\* cleared, and from then on every Write, Flush and Close returns what it
\* returns on a Writer newly made by NewBufferedWriter, and delivers the
\* same bytes to the new sink.
C7_ResetFresh ==
    (fresh.on /\ w.buffered) =>
        /\ last.op = "Reset" =>
               /\ w.ibuf = <<>>
               /\ w.err = nil
               /\ ~w.wroteStreamHeader
               /\ fresh.w = NewBufferedWriter
        /\ returned(last) = returned(fresh.last)
        /\ sink = fresh.sink
        /\ w.ibuf = fresh.w.ibuf
        /\ w.err = fresh.w.err
        /\ w.wroteStreamHeader = fresh.w.wroteStreamHeader
        /\ w.buffered = fresh.w.buffered

\* A Writer that was streaming and had latched an error when it was Reset,
\* and has delivered a stream since.
C7_Witness ==
    /\ fresh.on
    /\ w.buffered
    /\ fresh.from.wroteStreamHeader
    /\ fresh.from.err # nil
    /\ last.op \in {"Write", "Flush", "Close"}
    /\ sink.bytes # <<>>

====
